---- MODULE Spec2Model ----
(***************************************************************************)
(* Flights service: the allocation of passengers to seats                  *)
(* (_order_passengers), the uniqueness guard (assert_unique) and the       *)
(* operations of the flights service on the stored flight documents.       *)
(***************************************************************************)
EXTENDS Integers, Sequences, FiniteSets, TLC

VARIABLES flights,   \* the flights collection: ObjectId -> stored document
          call,      \* the service operation in hand: its arguments and its result
          args,      \* the arguments of the pure function under check
          ret        \* what the pure function returned

vars == <<flights, call, args, ret>>

----------------------------------------------------------------------------
(* Bounds                                                                  *)

MaxPassengers == 3      \* longest passenger list given to allocation
MaxCapacity == 3        \* largest capacity given to allocation
MaxOld == 2             \* longest list of existing items given to the guard
MaxNew == 2             \* longest incoming batch given to the guard
MaxBatch == 2           \* longest passenger list of a service payload

----------------------------------------------------------------------------
(* Data model (models.py)                                                  *)

FlightCategories == {"Black", "Platinum", "Gold", "Normal"}

PassengerFields ==
    {"id", "name", "has_connections", "age", "flight_category",
     "reservation_id", "has_checked_baggage"}

PassengerCreate(id, res, age, cat, conn, bag) ==
    [id |-> id, name |-> "pax", has_connections |-> conn, age |-> age,
     flight_category |-> cat, reservation_id |-> res,
     has_checked_baggage |-> bag]

\* The passengers allocation is tried on: two identifiers, three
\* reservations, and a passenger of weight 2 (Normal, age 0) or of weight 11
\* (Gold, age 1, with connections and checked baggage: 5 + 1 + 3 + 2), so
\* that averages tie between groups of different sizes and fall between
\* two integers.
AllocPool ==
    {PassengerCreate(i, r, 0, "Normal", FALSE, FALSE) :
        i \in {1, 2}, r \in {"A", "B", "C"}}
    \cup
    {PassengerCreate(i, r, 1, "Gold", TRUE, TRUE) :
        i \in {1, 2}, r \in {"A", "B", "C"}}

RECURSIVE SeqsUpTo(_, _)
SeqsUpTo(S, n) ==
    IF n = 0 THEN {<<>>}
    ELSE LET shorter == SeqsUpTo(S, n - 1)
         IN  shorter \cup {Append(s, x) : s \in {t \in shorter : Len(t) = n - 1}, x \in S}

----------------------------------------------------------------------------
(* Allocation: service.py _order_passengers                                *)

category_weights(c) ==
    CASE c = "Black" -> 10
      [] c = "Platinum" -> 7
      [] c = "Gold" -> 5
      [] c = "Normal" -> 2

connection_weight == 3
checked_baggage_weight == 2
age_weight == 1

PassengerWeight(p) ==
    category_weights(p.flight_category)
    + (IF p.has_connections THEN connection_weight ELSE 0)
    + (IF p.has_checked_baggage THEN checked_baggage_weight ELSE 0)
    + (age_weight * p.age)

\* groups is the dict of the code, kept as the sequence of its values in
\* insertion order; each value carries its key.
GroupIndex(groups, key) ==
    {i \in 1..Len(groups) : groups[i].key = key}

AddToGroups(groups, p) ==
    LET withKey == IF GroupIndex(groups, p.reservation_id) = {}
                   THEN Append(groups, [key |-> p.reservation_id,
                                        passengers |-> <<>>, total |-> 0])
                   ELSE groups
        i == CHOOSE j \in GroupIndex(withKey, p.reservation_id) : TRUE
    IN  [withKey EXCEPT ![i] =
            [key |-> @.key,
             passengers |-> Append(@.passengers, p),
             total |-> @.total + PassengerWeight(p)]]

RECURSIVE GroupPassengers(_, _)
GroupPassengers(passengers, groups) ==
    IF passengers = <<>> THEN groups
    ELSE GroupPassengers(Tail(passengers), AddToGroups(groups, Head(passengers)))

\* The sort key without its second component.
KeyLessNoSize(g, h) ==
    g.total * Len(h.passengers) > h.total * Len(g.passengers)

\* The sort key is the tuple (-total / len, -len); the quotient is Python's
\* true division, which orders two quotients as the exact rationals do
\* while total * len stays below 2^52 (compared here by cross-multiplication,
\* the lengths being positive).
KeyLess(g, h) ==
    LET gn == Len(g.passengers)
        hn == Len(h.passengers)
    IN  \/ g.total * hn > h.total * gn
        \/ /\ g.total * hn = h.total * gn
           /\ gn > hn

\* A sort that is not stable: an element goes in front of the elements
\* already placed whose key equals its own.
RECURSIVE InsertSortedUnstable(_, _)
InsertSortedUnstable(sortedGroups, g) ==
    IF sortedGroups = <<>> THEN <<g>>
    ELSE IF ~KeyLess(Head(sortedGroups), g)
         THEN <<g>> \o sortedGroups
         ELSE <<Head(sortedGroups)>> \o InsertSortedUnstable(Tail(sortedGroups), g)

\* sorted() is stable: an element goes behind every element already placed
\* whose key is not greater than its own.
RECURSIVE InsertSorted(_, _)
InsertSorted(sortedGroups, g) ==
    IF sortedGroups = <<>> THEN <<g>>
    ELSE IF KeyLess(g, Head(sortedGroups))
         THEN <<g>> \o sortedGroups
         ELSE <<Head(sortedGroups)>> \o InsertSorted(Tail(sortedGroups), g)

RECURSIVE SortedGroups(_, _)
SortedGroups(groups, acc) ==
    IF groups = <<>> THEN acc
    ELSE SortedGroups(Tail(groups), InsertSorted(acc, Head(groups)))

\* Variants of the seat-filling loop, each with one plausible slip.
RECURSIVE FillSeatsDropRejected(_, _, _, _)
FillSeatsDropRejected(ordered, capacity, booked, overbooked) ==
    IF ordered = <<>>
    THEN [booked |-> booked, overbooked |-> overbooked]
    ELSE LET group == Head(ordered)
         IN  IF Len(booked) + Len(group.passengers) <= capacity
             THEN FillSeatsDropRejected(Tail(ordered), capacity,
                                        booked \o group.passengers, overbooked)
             ELSE FillSeatsDropRejected(Tail(ordered), capacity,
                                        booked, group.passengers)

RECURSIVE FillSeatsSplit(_, _, _, _)
FillSeatsSplit(ordered, capacity, booked, overbooked) ==
    IF ordered = <<>>
    THEN [booked |-> booked, overbooked |-> overbooked]
    ELSE LET group == Head(ordered)
             free == IF capacity > Len(booked) THEN capacity - Len(booked) ELSE 0
             fit == IF Len(group.passengers) <= free
                    THEN Len(group.passengers) ELSE free
         IN  FillSeatsSplit(Tail(ordered), capacity,
                 booked \o SubSeq(group.passengers, 1, fit),
                 overbooked \o SubSeq(group.passengers, fit + 1,
                                      Len(group.passengers)))

RECURSIVE FillSeatsFirstAlways(_, _, _, _)
FillSeatsFirstAlways(ordered, capacity, booked, overbooked) ==
    IF ordered = <<>>
    THEN [booked |-> booked, overbooked |-> overbooked]
    ELSE LET group == Head(ordered)
         IN  IF \/ Len(booked) + Len(group.passengers) <= capacity
                \/ (booked = <<>> /\ overbooked = <<>>)
             THEN FillSeatsFirstAlways(Tail(ordered), capacity,
                                       booked \o group.passengers, overbooked)
             ELSE FillSeatsFirstAlways(Tail(ordered), capacity,
                                       booked, overbooked \o group.passengers)

RECURSIVE FillSeatsCutoff(_, _, _, _)
FillSeatsCutoff(ordered, capacity, booked, overbooked) ==
    IF ordered = <<>>
    THEN [booked |-> booked, overbooked |-> overbooked]
    ELSE LET group == Head(ordered)
         IN  IF /\ Len(booked) + Len(group.passengers) <= capacity
                /\ overbooked = <<>>
             THEN FillSeatsCutoff(Tail(ordered), capacity,
                                  booked \o group.passengers, overbooked)
             ELSE FillSeatsCutoff(Tail(ordered), capacity,
                                  booked, overbooked \o group.passengers)

RECURSIVE FillSeats(_, _, _, _)
FillSeats(ordered, capacity, booked, overbooked) ==
    IF ordered = <<>>
    THEN [booked |-> booked, overbooked |-> overbooked]
    ELSE LET group == Head(ordered)
         IN  IF Len(booked) + Len(group.passengers) <= capacity
             THEN FillSeats(Tail(ordered), capacity,
                            booked \o group.passengers, overbooked)
             ELSE FillSeats(Tail(ordered), capacity,
                            booked, overbooked \o group.passengers)

ordered_groups(passengers) ==
    SortedGroups(GroupPassengers(passengers, <<>>), <<>>)

_order_passengers(passengers, capacity) ==
    FillSeats(ordered_groups(passengers), capacity, <<>>, <<>>)

----------------------------------------------------------------------------
(* Specification of the allocation, a pure function: the arguments are     *)
(* drawn in the initial state and the function is applied once.            *)

NoFlights == [f \in {} |-> 0]
NoOp == [op |-> "none", result |-> "none"]

InitAlloc ==
    /\ flights = NoFlights
    /\ call = NoOp
    /\ args \in [passengers : SeqsUpTo(AllocPool, MaxPassengers),
                 capacity : 0..MaxCapacity]
    /\ ret = [done |-> FALSE, booked |-> <<>>, overbooked |-> <<>>]

OrderPassengers ==
    /\ ~ret.done
    /\ LET r == _order_passengers(args.passengers, args.capacity)
       IN  ret' = [done |-> TRUE, booked |-> r.booked, overbooked |-> r.overbooked]
    /\ UNCHANGED <<flights, call, args>>

NextAlloc == OrderPassengers

SpecAlloc == InitAlloc /\ [][NextAlloc]_vars

----------------------------------------------------------------------------
(* Properties of the allocation                                            *)

RECURSIVE Count(_, _)
Count(seq, x) ==
    IF seq = <<>> THEN 0
    ELSE (IF Head(seq) = x THEN 1 ELSE 0) + Count(Tail(seq), x)

Range(seq) == {seq[i] : i \in DOMAIN seq}

ResIds(seq) == {seq[i].reservation_id : i \in DOMAIN seq}

Members(seq, r) == SelectSeq(seq, LAMBDA p : p.reservation_id = r)

RECURSIVE SumWeights(_)
SumWeights(seq) ==
    IF seq = <<>> THEN 0 ELSE PassengerWeight(Head(seq)) + SumWeights(Tail(seq))

FirstIndex(seq, r) ==
    CHOOSE i \in DOMAIN seq :
        /\ seq[i].reservation_id = r
        /\ \A j \in 1..(i - 1) : seq[j].reservation_id # r

\* Group g ranks before group h: greater average score, or the same average
\* and more members, or both the same and first seen earlier in the input.
RankBefore(inp, g, h) ==
    LET tg == SumWeights(Members(inp, g))
        th == SumWeights(Members(inp, h))
        ng == Len(Members(inp, g))
        nh == Len(Members(inp, h))
    IN  \/ tg * nh > th * ng
        \/ tg * nh = th * ng /\ ng > nh
        \/ tg * nh = th * ng /\ ng = nh /\ FirstIndex(inp, g) < FirstIndex(inp, h)

IsSeated(r) == Members(ret.booked, r) # <<>>

\* C2: every input passenger is in exactly one of the two returned lists and
\* exactly once there (nothing lost, nothing duplicated, the lists disjoint);
\* an empty input gives two empty lists.
C2_Partition ==
    ret.done =>
        /\ \A p \in AllocPool :
              /\ Count(ret.booked, p) + Count(ret.overbooked, p)
                    = Count(args.passengers, p)
              /\ ~(p \in Range(ret.booked) /\ p \in Range(ret.overbooked))
        /\ Range(ret.booked) \cup Range(ret.overbooked) \subseteq Range(args.passengers)
        /\ Len(ret.booked) + Len(ret.overbooked) = Len(args.passengers)
        /\ (args.passengers = <<>> => ret.booked = <<>> /\ ret.overbooked = <<>>)

C2_Witness ==
    /\ ret.done
    /\ Len(args.passengers) = MaxPassengers
    /\ ret.booked # <<>>
    /\ ret.overbooked # <<>>

\* C3: allocation never splits a reservation group: all input passengers of
\* one reservation are in the seated list, or all are in the overbooked list.
C3_GroupAtomic ==
    ret.done =>
        \A r \in ResIds(args.passengers) :
            \/ /\ Members(ret.booked, r) = Members(args.passengers, r)
               /\ Members(ret.overbooked, r) = <<>>
            \/ /\ Members(ret.overbooked, r) = Members(args.passengers, r)
               /\ Members(ret.booked, r) = <<>>

\* A group of two is overbooked although one seat is left free.
C3_Witness ==
    /\ ret.done
    /\ Len(ret.booked) < args.capacity
    /\ \E r \in ResIds(args.passengers) :
          /\ Len(Members(args.passengers, r)) >= 2
          /\ Members(ret.overbooked, r) = Members(args.passengers, r)

\* C4: the seated list has at most capacity passengers, and a group larger
\* than the capacity is overbooked as a whole, also when it is the only group.
C4_WithinCapacity ==
    ret.done =>
        /\ Len(ret.booked) <= args.capacity
        /\ \A r \in ResIds(args.passengers) :
              Len(Members(args.passengers, r)) > args.capacity =>
                  /\ Members(ret.overbooked, r) = Members(args.passengers, r)
                  /\ Members(ret.booked, r) = <<>>

\* The only group has two members and the capacity is one.
C4_Witness ==
    /\ ret.done
    /\ args.capacity = 1
    /\ Len(args.passengers) = 2
    /\ Cardinality(ResIds(args.passengers)) = 1
    /\ ret.booked = <<>>
    /\ ret.overbooked = args.passengers

InRankOrder(inp, out) ==
    \A i, j \in DOMAIN out :
        (i < j /\ out[i].reservation_id # out[j].reservation_id) =>
            RankBefore(inp, out[i].reservation_id, out[j].reservation_id)

SeatedAbove(r) ==
    Len(SelectSeq(ret.booked,
                  LAMBDA p : /\ p.reservation_id # r
                             /\ RankBefore(args.passengers, p.reservation_id, r)))

\* C6: a group is seated iff the passengers of the higher-ranked seated
\* groups plus its own members fit the capacity; a rejected group does not
\* end admission.
C6_BinFill ==
    ret.done =>
        \A r \in ResIds(args.passengers) :
            IsSeated(r) <=>
                SeatedAbove(r) + Len(Members(args.passengers, r)) <= args.capacity

\* A higher-ranked group is overbooked and a lower-ranked one is seated.
C6_Witness ==
    /\ ret.done
    /\ \E g, h \in ResIds(args.passengers) :
          /\ g # h
          /\ RankBefore(args.passengers, g, h)
          /\ ~IsSeated(g)
          /\ IsSeated(h)


\* C23: allocation run again on its own output, the seated list followed by
\* the overbooked list, with the same capacity, returns the same seated list
\* and the same overbooked list, each in the same order.
C23_IdempotentOnOutput ==
    ret.done =>
        LET again == _order_passengers(ret.booked \o ret.overbooked,
                                       args.capacity)
        IN  /\ again.booked = ret.booked
            /\ again.overbooked = ret.overbooked

\* Allocation has moved passengers: a reservation of two, ranked first, did
\* not fit and is overbooked, and the passenger ranked behind it is seated;
\* the output, seated then overbooked, is in another order than the input
\* and than the ranking.
C23_Witness ==
    /\ ret.done
    /\ Len(ret.booked) = 1
    /\ Len(ret.overbooked) = 2
    /\ ret.overbooked[1].reservation_id = ret.overbooked[2].reservation_id
    /\ ret.booked[1].reservation_id # ret.overbooked[1].reservation_id
    /\ 2 * PassengerWeight(ret.booked[1]) < SumWeights(ret.overbooked)
    /\ ret.booked \o ret.overbooked # args.passengers
----------------------------------------------------------------------------
(* Uniqueness guard: utils.py assert_unique                                *)

\* The values of the key in a list of items. Every item the service hands
\* over is the dump of a passenger, whose id is a required integer, so the
\* "is not None" filter of the code keeps every item.
KeysOf(data, key) == [i \in 1..Len(data) |-> data[i][key]]

SeqRange(seq) == {seq[i] : i \in 1..Len(seq)}

\* The guard without its check of the new data against themselves.
assert_unique_old_only(old_data, new_data, key) ==
    IF SeqRange(KeysOf(new_data, key)) \cap SeqRange(KeysOf(old_data, key)) # {}
    THEN "ValueError"
    ELSE "None"

\* "ValueError" when the guard raises, "None" when it returns.
assert_unique(old_data, new_data, key) ==
    LET old_keys == KeysOf(old_data, key)
        new_keys == KeysOf(new_data, key)
        new_keys_set == SeqRange(new_keys)
    IN  IF Len(new_keys) # Cardinality(new_keys_set)
        THEN "ValueError"
        ELSE LET duplicates == new_keys_set \cap SeqRange(old_keys)
             IN  IF duplicates # {} THEN "ValueError" ELSE "None"

\* The items the guard is tried on: three identifiers, each on two
\* reservations.
GuardPool == {[id |-> i, reservationId |-> r] : i \in {1, 2, 3}, r \in {"A", "B"}}

InitGuard ==
    /\ flights = NoFlights
    /\ call = NoOp
    /\ args \in [old_data : SeqsUpTo(GuardPool, MaxOld),
                 new_data : SeqsUpTo(GuardPool, MaxNew)]
    /\ ret = [done |-> FALSE, raised |-> FALSE]

AssertUnique ==
    /\ ~ret.done
    /\ ret' = [done |-> TRUE,
               raised |-> (assert_unique(args.old_data, args.new_data, "id")
                              = "ValueError")]
    /\ UNCHANGED <<flights, call, args>>

NextGuard == AssertUnique

SpecGuard == InitGuard /\ [][NextGuard]_vars

\* C7: the guard fails iff the incoming batch has the same identifier twice
\* or shares an identifier with the existing passengers; it succeeds
\* otherwise, and either way the two lists are what they were.
C7_GuardIff ==
    [][ret'.done =>
          /\ args' = args
          /\ ret'.raised <=>
                \/ \E i, j \in DOMAIN args.new_data :
                      i # j /\ args.new_data[i].id = args.new_data[j].id
                \/ \E i \in DOMAIN args.new_data, j \in DOMAIN args.old_data :
                      args.new_data[i].id = args.old_data[j].id]_vars

\* The guard raised on a batch that repeats an identifier the existing
\* passengers do not have.
C7_Witness ==
    /\ ret.done
    /\ ret.raised
    /\ Len(args.new_data) = 2
    /\ args.new_data[1].id = args.new_data[2].id
    /\ args.new_data[1] # args.new_data[2]
    /\ args.old_data # <<>>
    /\ \A j \in DOMAIN args.old_data : args.old_data[j].id # args.new_data[1].id

----------------------------------------------------------------------------
(* The flights service: service.py                                         *)

\* The _id values the collection hands out: one flight is stored at a time.
ObjectIds == {"f1"}

\* flight_id=None: ObjectId(None) is a new identifier, which no stored
\* flight has.
None == "None"

\* The identifiers of the requests: 1 and 2 are those of the payloads'
\* passengers, 3 is one that no passenger has.
PassengerIds == {1, 2, 3}
Codes == {"AA1", "BB2"}
Capacities == {1, 2}

\* The passengers of the payloads: identifier 1 has weight 2, identifier 2
\* has weight 11, each on reservation A or B.
ServicePool ==
    {PassengerCreate(1, r, 0, "Normal", FALSE, FALSE) : r \in {"A", "B"}}
    \cup
    {PassengerCreate(2, r, 1, "Gold", TRUE, TRUE) : r \in {"A", "B"}}

\* FlightCreate and FlightUpdate payloads (flight_code and capacity are
\* required in both). A flight is created with the first code; an update
\* without passengers may give it the other.
FlightPayloads ==
    [flight_code : {"AA1"}, capacity : Capacities,
     passengers : SeqsUpTo(ServicePool, MaxBatch)]

\* PassengerUpdate payloads, as the fields that are set.
PassengerUpdates ==
    {[name |-> "renamed"], [age |-> 7, reservation_id |-> "B"]}

\* alias_generator=to_camel
to_camel(field) ==
    CASE field = "has_connections" -> "hasConnections"
      [] field = "flight_category" -> "flightCategory"
      [] field = "reservation_id" -> "reservationId"
      [] field = "has_checked_baggage" -> "hasCheckedBaggage"
      [] field = "flight_code" -> "flightCode"
      [] OTHER -> field

\* passenger.model_dump(by_alias=True) of a PassengerCreate
model_dump(passenger) ==
    [id |-> passenger.id, name |-> passenger.name,
     hasConnections |-> passenger.has_connections, age |-> passenger.age,
     flightCategory |-> passenger.flight_category,
     reservationId |-> passenger.reservation_id,
     hasCheckedBaggage |-> passenger.has_checked_baggage]

\* passenger.model_dump(by_alias=True, exclude_unset=True,
\* exclude_defaults=True) of a PassengerUpdate
update_dump(passenger) ==
    LET keys == {to_camel(k) : k \in DOMAIN passenger}
    IN  [a \in keys |-> passenger[CHOOSE k \in DOMAIN passenger : to_camel(k) = a]]

DumpAll(passengers) == [i \in 1..Len(passengers) |-> model_dump(passengers[i])]

\* The guard run against no existing passengers, whatever the flight.
_get_create_passengers_data_no_check(flight_id, passengers) ==
    IF flight_id # None /\ flight_id \notin DOMAIN flights
    THEN [err |-> "NotFoundError", data |-> <<>>]
    ELSE IF assert_unique(<<>>, DumpAll(passengers), "id") = "ValueError"
         THEN [err |-> "DuplicatePassengerError", data |-> <<>>]
         ELSE [err |-> "ok", data |-> DumpAll(passengers)]

_get_create_passengers_data(flight_id, passengers) ==
    LET data == DumpAll(passengers)
        found == flight_id \in DOMAIN flights
    IN  IF ~found /\ flight_id # None
        THEN [err |-> "NotFoundError", data |-> <<>>]
        ELSE LET existing_passengers ==
                     IF found THEN flights[flight_id].passengers ELSE <<>>
             IN  IF assert_unique(existing_passengers, data, "id") = "ValueError"
                 THEN [err |-> "DuplicatePassengerError", data |-> <<>>]
                 ELSE [err |-> "ok", data |-> data]

Store(flight_id, doc) ==
    [f \in DOMAIN flights \cup {flight_id} |->
        IF f = flight_id THEN doc ELSE flights[f]]

\* The operation in hand ends with this result (a return or one of the
\* service errors).
Ends(result) == call' = [call EXCEPT !.result = result]

\* Create-flight with the guard run once on the whole payload.
flights_create_one_guard(flight) ==
    LET ordered == _order_passengers(flight.passengers, flight.capacity)
        whole == _get_create_passengers_data(None, flight.passengers)
    IN  IF whole.err # "ok"
        THEN Ends(whole.err) /\ UNCHANGED flights
        ELSE /\ ObjectIds \ DOMAIN flights # {}
             /\ LET new_id == CHOOSE f \in ObjectIds \ DOMAIN flights : TRUE
                IN  /\ flights' = Store(new_id,
                            [flightCode |-> flight.flight_code,
                             capacity |-> flight.capacity,
                             passengers |-> DumpAll(ordered.booked),
                             overbookedPassengers |-> DumpAll(ordered.overbooked)])
                    /\ call' = [call EXCEPT !.flight_id = new_id, !.result = "ok"]

flights_create(flight) ==
    LET ordered == _order_passengers(flight.passengers, flight.capacity)
        booked == _get_create_passengers_data(None, ordered.booked)
        overbooked == _get_create_passengers_data(None, ordered.overbooked)
    IN  IF booked.err # "ok"
        THEN Ends(booked.err) /\ UNCHANGED flights
        ELSE IF overbooked.err # "ok"
        THEN Ends(overbooked.err) /\ UNCHANGED flights
        ELSE /\ ObjectIds \ DOMAIN flights # {}
             /\ LET new_id == CHOOSE f \in ObjectIds \ DOMAIN flights : TRUE
                IN  /\ flights' = Store(new_id,
                            [flightCode |-> flight.flight_code,
                             capacity |-> flight.capacity,
                             passengers |-> booked.data,
                             overbookedPassengers |-> overbooked.data])
                    /\ call' = [call EXCEPT !.flight_id = new_id, !.result = "ok"]

\* The full update that dumps the passengers' default when the payload has
\* no "passengers".
flights_update_with_default(flight_id, flight, update_passengers) ==
    LET dumped == _get_create_passengers_data(None, flight.passengers)
    IN  IF dumped.err # "ok"
        THEN Ends(dumped.err) /\ UNCHANGED flights
        ELSE IF flight_id \notin DOMAIN flights
        THEN Ends("NotFoundError") /\ UNCHANGED flights
        ELSE /\ flights' = [flights EXCEPT ![flight_id] =
                    [flightCode |-> flight.flight_code,
                     capacity |-> flight.capacity,
                     passengers |-> dumped.data,
                     overbookedPassengers |-> @.overbookedPassengers]]
             /\ Ends("ok")

\* The full update that sets flight code and capacity before it runs the
\* guard on the passengers.
flights_update_fields_first(flight_id, flight, update_passengers) ==
    LET dumped == IF update_passengers
                  THEN _get_create_passengers_data(None, flight.passengers)
                  ELSE [err |-> "ok", data |-> <<>>]
    IN  IF flight_id \notin DOMAIN flights
        THEN Ends(IF dumped.err # "ok" THEN dumped.err ELSE "NotFoundError")
             /\ UNCHANGED flights
        ELSE /\ flights' = [flights EXCEPT ![flight_id] =
                    [flightCode |-> flight.flight_code,
                     capacity |-> flight.capacity,
                     passengers |-> IF update_passengers /\ dumped.err = "ok"
                                    THEN dumped.data ELSE @.passengers,
                     overbookedPassengers |-> @.overbookedPassengers]]
             /\ Ends(dumped.err)

\* update_passengers is '"passengers" in flight.model_fields_set'.
flights_update(flight_id, flight, update_passengers) ==
    LET dumped == IF update_passengers
                  THEN _get_create_passengers_data(None, flight.passengers)
                  ELSE [err |-> "ok", data |-> <<>>]
    IN  IF dumped.err # "ok"
        THEN Ends(dumped.err) /\ UNCHANGED flights
        ELSE IF flight_id \notin DOMAIN flights
        THEN Ends("NotFoundError") /\ UNCHANGED flights
        ELSE /\ flights' = [flights EXCEPT ![flight_id] =
                    [flightCode |-> flight.flight_code,
                     capacity |-> flight.capacity,
                     passengers |-> IF update_passengers
                                    THEN dumped.data ELSE @.passengers,
                     overbookedPassengers |-> @.overbookedPassengers]]
             /\ Ends("ok")

flights_delete(flight_id) ==
    IF flight_id \in DOMAIN flights
    THEN /\ flights' = [f \in DOMAIN flights \ {flight_id} |-> flights[f]]
         /\ Ends("ok")
    ELSE Ends("NotFoundError") /\ UNCHANGED flights

\* Add-passengers that appends the dumped batch without the guard.
flights_add_passengers_unguarded(flight_id, passengers) ==
    IF flight_id \notin DOMAIN flights
    THEN Ends("NotFoundError") /\ UNCHANGED flights
    ELSE /\ flights' = [flights EXCEPT ![flight_id].passengers =
                            @ \o DumpAll(passengers)]
         /\ Ends("ok")

\* Add-passengers that seats the batch only while it fits the capacity and
\* overbooks it otherwise.
flights_add_passengers_to_capacity(flight_id, passengers) ==
    LET dumped == _get_create_passengers_data(flight_id, passengers)
    IN  IF dumped.err # "ok"
        THEN Ends(dumped.err) /\ UNCHANGED flights
        ELSE /\ flights' = [flights EXCEPT ![flight_id] =
                    IF Len(@.passengers) + Len(dumped.data) <= @.capacity
                    THEN [@ EXCEPT !.passengers = @ \o dumped.data]
                    ELSE [@ EXCEPT !.overbookedPassengers = @ \o dumped.data]]
             /\ Ends("ok")

flights_add_passengers(flight_id, passengers) ==
    LET dumped == _get_create_passengers_data(flight_id, passengers)
    IN  IF dumped.err # "ok"
        THEN Ends(dumped.err) /\ UNCHANGED flights
        ELSE /\ flights' = [flights EXCEPT ![flight_id].passengers =
                                @ \o dumped.data]
             /\ Ends("ok")

\* Remove-passengers that pulls the identifiers from the overbooked list
\* as well.
flights_remove_passengers_both_lists(flight_id, passenger_ids) ==
    IF flight_id \notin DOMAIN flights
    THEN Ends("NotFoundError") /\ UNCHANGED flights
    ELSE LET kept == SelectSeq(flights[flight_id].passengers,
                               LAMBDA p : p.id \notin passenger_ids)
             kept_overbooked ==
                     SelectSeq(flights[flight_id].overbookedPassengers,
                               LAMBDA p : p.id \notin passenger_ids)
         IN  IF kept = flights[flight_id].passengers
             THEN Ends("PassengerNotFoundError") /\ UNCHANGED flights
             ELSE /\ flights' = [flights EXCEPT
                        ![flight_id].passengers = kept,
                        ![flight_id].overbookedPassengers = kept_overbooked]
                  /\ Ends("ok")

\* Remove-passengers that wants every given identifier seated.
flights_remove_passengers_all(flight_id, passenger_ids) ==
    IF flight_id \notin DOMAIN flights
    THEN Ends("NotFoundError") /\ UNCHANGED flights
    ELSE LET kept == SelectSeq(flights[flight_id].passengers,
                               LAMBDA p : p.id \notin passenger_ids)
             seated == {flights[flight_id].passengers[i].id :
                            i \in DOMAIN flights[flight_id].passengers}
         IN  IF ~(passenger_ids \subseteq seated) \/ passenger_ids = {}
             THEN Ends("PassengerNotFoundError") /\ UNCHANGED flights
             ELSE /\ flights' = [flights EXCEPT ![flight_id].passengers = kept]
                  /\ Ends("ok")

\* $pull of the passengers whose id is $in passenger_ids (a list in the
\* code, of which only membership is used).
flights_remove_passengers(flight_id, passenger_ids) ==
    IF flight_id \notin DOMAIN flights
    THEN Ends("NotFoundError") /\ UNCHANGED flights
    ELSE LET kept == SelectSeq(flights[flight_id].passengers,
                               LAMBDA p : p.id \notin passenger_ids)
         IN  IF kept = flights[flight_id].passengers
             THEN Ends("PassengerNotFoundError") /\ UNCHANGED flights
             ELSE /\ flights' = [flights EXCEPT ![flight_id].passengers = kept]
                  /\ Ends("ok")

\* The patch that sets "passengers.0.<field>": the first element of the
\* array, whichever passenger matched.
flights_update_passenger_at_0(flight_id, passenger_id, passenger) ==
    LET data == update_dump(passenger)
    IN  IF flight_id \notin DOMAIN flights
        THEN Ends("NotFoundError") /\ UNCHANGED flights
        ELSE LET old == flights[flight_id].passengers
                 hits == {i \in 1..Len(old) : old[i].id = passenger_id}
             IN  IF hits = {}
                 THEN Ends("PassengerNotFoundError") /\ UNCHANGED flights
                 ELSE /\ flights' = [flights EXCEPT
                            ![flight_id].passengers[1] =
                                [k \in DOMAIN @ |->
                                    IF k \in DOMAIN data THEN data[k] ELSE @[k]]]
                      /\ Ends("ok")

\* $set of "passengers.$.<field>": the first element of the array that
\* matches "passengers.id".
flights_update_passenger(flight_id, passenger_id, passenger) ==
    LET data == update_dump(passenger)
    IN  IF flight_id \notin DOMAIN flights
        THEN Ends("NotFoundError") /\ UNCHANGED flights
        ELSE LET old == flights[flight_id].passengers
                 hits == {i \in 1..Len(old) : old[i].id = passenger_id}
             IN  IF hits = {}
                 THEN Ends("PassengerNotFoundError") /\ UNCHANGED flights
                 ELSE LET first == CHOOSE i \in hits : \A j \in hits : i <= j
                      IN  /\ flights' = [flights EXCEPT
                                ![flight_id].passengers[first] =
                                    [k \in DOMAIN @ |->
                                        IF k \in DOMAIN data THEN data[k] ELSE @[k]]]
                          /\ Ends("ok")

\* find_one({"_id": ..., "passengers.id": passenger_id}, {"passengers.$": 1}):
\* no document when no flight has the id, and none when the flight has no
\* such passenger; "result is None or not result.get('passengers', [])".
flights_get_passenger_by_id(flight_id, passenger_id) ==
    LET found == flight_id \in DOMAIN flights
        passengers == IF found
                      THEN SelectSeq(flights[flight_id].passengers,
                                     LAMBDA p : p.id = passenger_id)
                      ELSE <<>>
    IN  /\ IF passengers = <<>>
           THEN Ends("PassengerNotFoundError")
           ELSE Ends("ok")
        /\ UNCHANGED flights

----------------------------------------------------------------------------
(* The service, one operation at a time: a request comes in through its    *)
(* endpoint (router.py), the service function runs on the collection, the  *)
(* response goes back.                                                     *)

\* The flight_id of a request: the stored flight's or one no flight has.
FlightIds == ObjectIds

Requests ==
    [op : {"create"}, flight_id : {None}, flight : FlightPayloads,
         result : {"pending"}]
    \cup
    [op : {"update"}, flight_id : FlightIds, flight : FlightPayloads,
         update_passengers : {TRUE}, result : {"pending"}]
    \cup
    [op : {"update"}, flight_id : FlightIds,
         flight : [flight_code : Codes, capacity : Capacities,
                   passengers : {<<>>}],
         update_passengers : {FALSE}, result : {"pending"}]
    \cup
    [op : {"delete"}, flight_id : FlightIds, result : {"pending"}]
    \cup
    [op : {"add"}, flight_id : FlightIds,
         passengers : SeqsUpTo(ServicePool, MaxBatch), result : {"pending"}]
    \cup
    [op : {"remove"}, flight_id : FlightIds,
         passenger_ids : SUBSET PassengerIds, result : {"pending"}]
    \cup
    [op : {"patch"}, flight_id : FlightIds, passenger_id : PassengerIds,
         passenger : PassengerUpdates, result : {"pending"}]
    \cup
    [op : {"get_passenger"}, flight_id : FlightIds,
         passenger_id : PassengerIds, result : {"pending"}]

Init ==
    /\ flights = NoFlights
    /\ call = NoOp
    /\ args = [passengers |-> <<>>, capacity |-> 0]
    /\ ret = [done |-> TRUE, booked |-> <<>>, overbooked |-> <<>>]

Pending(op) == call.op = op /\ call.result = "pending"

Request ==
    /\ call = NoOp
    /\ call' \in Requests
    /\ UNCHANGED <<flights, args, ret>>

Create ==
    /\ Pending("create")
    /\ flights_create(call.flight)
    /\ UNCHANGED <<args, ret>>

Update ==
    /\ Pending("update")
    /\ flights_update(call.flight_id, call.flight, call.update_passengers)
    /\ UNCHANGED <<args, ret>>

Delete ==
    /\ Pending("delete")
    /\ flights_delete(call.flight_id)
    /\ UNCHANGED <<args, ret>>

AddPassengers ==
    /\ Pending("add")
    /\ flights_add_passengers(call.flight_id, call.passengers)
    /\ UNCHANGED <<args, ret>>

RemovePassengers ==
    /\ Pending("remove")
    /\ flights_remove_passengers(call.flight_id, call.passenger_ids)
    /\ UNCHANGED <<args, ret>>

UpdatePassenger ==
    /\ Pending("patch")
    /\ flights_update_passenger(call.flight_id, call.passenger_id, call.passenger)
    /\ UNCHANGED <<args, ret>>

GetPassenger ==
    /\ Pending("get_passenger")
    /\ flights_get_passenger_by_id(call.flight_id, call.passenger_id)
    /\ UNCHANGED <<args, ret>>

Respond ==
    /\ call.op # "none"
    /\ call.result # "pending"
    /\ call' = NoOp
    /\ UNCHANGED <<flights, args, ret>>

Next ==
    \/ Request
    \/ Create
    \/ Update
    \/ Delete
    \/ AddPassengers
    \/ RemovePassengers
    \/ UpdatePassenger
    \/ GetPassenger
    \/ Respond

Spec == Init /\ [][Next]_vars

----------------------------------------------------------------------------
(* Properties of the service                                               *)

Ids(passengers) == [i \in 1..Len(passengers) |-> passengers[i].id]

NoRepeat(seq) == \A i, j \in 1..Len(seq) : i # j => seq[i] # seq[j]

Manifest(flight_id) ==
    flights[flight_id].passengers \o flights[flight_id].overbookedPassengers

\* C1: whatever operations ran, one at a time, no passenger identifier is
\* twice in a stored flight's seated list followed by its overbooked list.
C1_ManifestIdsUnique ==
    \A f \in DOMAIN flights : NoRepeat(Ids(Manifest(f)))

ReplacedPassengers ==
    /\ call.result = "ok"
    /\ \/ call.op = "create"
       \/ call.op = "update" /\ call.update_passengers

\* C8: after a successful create-flight, and after a successful full update
\* that carries a passenger list, the seated list is no longer than the
\* stored capacity.
C8_SeatedWithinCapacity ==
    ReplacedPassengers =>
        Len(flights[call.flight_id].passengers) <= flights[call.flight_id].capacity

\* C9: after a successful full update that carries a passenger list, the
\* stored seated and overbooked lists are the two lists allocation returns
\* for the payload's passengers and the flight's capacity.
C9_UpdateReallocates ==
    (call.op = "update" /\ call.update_passengers /\ call.result = "ok") =>
        LET ordered == _order_passengers(call.flight.passengers,
                                         flights[call.flight_id].capacity)
        IN  /\ flights[call.flight_id].passengers = DumpAll(ordered.booked)
            /\ flights[call.flight_id].overbookedPassengers
                  = DumpAll(ordered.overbooked)

BatchRepeats(passengers) ==
    \E i, j \in 1..Len(passengers) : i # j /\ passengers[i].id = passengers[j].id

BatchCollides(passengers, seated) ==
    \E i \in 1..Len(passengers), j \in 1..Len(seated) :
        passengers[i].id = seated[j].id

\* C10: add-passengers on an existing flight ends with
\* DuplicatePassengerError iff the batch has the same identifier twice or an
\* identifier of the flight's seated list; the stored flight is then what it
\* was.
C10_AddDuplicate ==
    [][(Pending("add") /\ call.flight_id \in DOMAIN flights) =>
          /\ call'.result = "DuplicatePassengerError" <=>
                \/ BatchRepeats(call.passengers)
                \/ BatchCollides(call.passengers,
                                 flights[call.flight_id].passengers)
          /\ call'.result = "DuplicatePassengerError" => flights' = flights]_vars

\* An add was refused for an identifier of the seated list alone.
C10_Witness ==
    /\ call.op = "add"
    /\ call.result = "DuplicatePassengerError"
    /\ call.flight_id \in DOMAIN flights
    /\ ~BatchRepeats(call.passengers)
    /\ BatchCollides(call.passengers, flights[call.flight_id].passengers)
    /\ flights[call.flight_id].overbookedPassengers # <<>>

\* class NotFoundError, PassengerNotFoundError, DuplicatePassengerError
ServiceErrors ==
    {"NotFoundError", "PassengerNotFoundError", "DuplicatePassengerError"}

\* C12: an operation (create, full update, delete, add, remove, patch) that
\* ends with NotFoundError, PassengerNotFoundError or
\* DuplicatePassengerError leaves the stored flights, and every field of
\* each, as they were when it began.
C12_FailureLeavesStore ==
    [][(call.op \in {"create", "update", "delete", "add", "remove", "patch"}
        /\ call.result = "pending"
        /\ call'.result \in ServiceErrors) => flights' = flights]_vars

\* A full update of a stored flight, with another capacity, was refused for
\* a repeated identifier.
C12_Witness ==
    /\ call.op = "update"
    /\ call.result = "DuplicatePassengerError"
    /\ call.flight_id \in DOMAIN flights
    /\ flights[call.flight_id].capacity # call.flight.capacity
    /\ flights[call.flight_id].passengers # <<>>

\* C13: create-flight ends with DuplicatePassengerError iff the seated list
\* or the overbooked list that allocation returns for the payload has an
\* identifier twice within itself, and then the stored flights are what they
\* were; otherwise it ends well with exactly one new flight stored, whose
\* seated and overbooked lists are the two lists of allocation.
C13_CreateOutcome ==
    [][Pending("create") =>
        LET ordered == _order_passengers(call.flight.passengers,
                                         call.flight.capacity)
            rejected == \/ BatchRepeats(ordered.booked)
                        \/ BatchRepeats(ordered.overbooked)
            new_id == call'.flight_id
        IN  /\ call'.result = "DuplicatePassengerError" <=> rejected
            /\ rejected => flights' = flights
            /\ ~rejected =>
                  /\ call'.result = "ok"
                  /\ new_id \notin DOMAIN flights
                  /\ DOMAIN flights' = DOMAIN flights \cup {new_id}
                  /\ \A f \in DOMAIN flights : flights'[f] = flights[f]
                  /\ flights'[new_id].passengers = DumpAll(ordered.booked)
                  /\ flights'[new_id].overbookedPassengers
                        = DumpAll(ordered.overbooked)]_vars

\* A flight was created from a payload that has one identifier on two
\* reservations, one seated and one overbooked.
C13_Witness ==
    /\ call.op = "create"
    /\ call.result = "ok"
    /\ BatchRepeats(call.flight.passengers)
    /\ flights[call.flight_id].passengers # <<>>
    /\ flights[call.flight_id].overbookedPassengers # <<>>

SeatedIds(flight_id) ==
    {flights[flight_id].passengers[i].id :
        i \in DOMAIN flights[flight_id].passengers}

\* C14: remove-passengers ends with NotFoundError iff no flight has the
\* flight id, with PassengerNotFoundError iff the flight exists and none of
\* the given identifiers is in its seated list, and ends well iff the flight
\* exists and at least one given identifier is in its seated list.
C14_RemoveOutcome ==
    [][Pending("remove") =>
        LET found == call.flight_id \in DOMAIN flights
            hit == found /\ call.passenger_ids \cap SeatedIds(call.flight_id) # {}
        IN  /\ call'.result = "NotFoundError" <=> ~found
            /\ call'.result = "PassengerNotFoundError" <=> (found /\ ~hit)
            /\ call'.result = "ok" <=> hit]_vars

\* A removal ended well though one of its identifiers is one that no
\* passenger has.
C14_Witness ==
    /\ call.op = "remove"
    /\ call.result = "ok"
    /\ \E i \in call.passenger_ids : \A p \in ServicePool : p.id # i
    /\ flights[call.flight_id].passengers # <<>>

\* C15: get-passenger-by-id and patch-passenger end with NotFoundError, not
\* with PassengerNotFoundError, when no flight has the flight id; they end
\* with PassengerNotFoundError only when the flight exists and no passenger
\* of its seated list has the identifier.
C15_NotFoundKinds ==
    [][(Pending("get_passenger") \/ Pending("patch")) =>
        /\ call.flight_id \notin DOMAIN flights =>
              call'.result = "NotFoundError"
        /\ call'.result = "PassengerNotFoundError" =>
              /\ call.flight_id \in DOMAIN flights
              /\ call.passenger_id \notin SeatedIds(call.flight_id)]_vars

\* C16: a full update whose payload has no "passengers" changes the flight
\* code and the capacity of the addressed flight and nothing else: the seated
\* list and the overbooked list stay as they were, passenger for passenger
\* and in order, whatever the new capacity.
C16_UpdateKeepsPassengers ==
    [][(Pending("update") /\ ~call.update_passengers
        /\ call.flight_id \in DOMAIN flights) =>
          /\ call'.result = "ok"
          /\ DOMAIN flights' = DOMAIN flights
          /\ flights'[call.flight_id] =
                [flights[call.flight_id] EXCEPT
                    !.flightCode = call.flight.flight_code,
                    !.capacity = call.flight.capacity]]_vars

\* A flight with two seated passengers and an overbooked one was given
\* another code and capacity 1 by an update without "passengers".
C16_Witness ==
    /\ call.op = "update"
    /\ ~call.update_passengers
    /\ call.result = "ok"
    /\ flights[call.flight_id].flightCode = "BB2"
    /\ flights[call.flight_id].capacity = 1
    /\ Len(flights[call.flight_id].passengers) = 2
    /\ flights[call.flight_id].overbookedPassengers # <<>>

\* C19: an add-passengers that the guard lets through ends well whatever the
\* capacity, and stores the old seated list followed by the whole batch in
\* batch order; the overbooked list, the flight code, the capacity and the
\* other flights are unchanged (no allocation, no capacity check).
C19_AddAppends ==
    [][Pending("add") =>
        LET passes ==
                /\ call.flight_id \in DOMAIN flights
                /\ ~BatchRepeats(call.passengers)
                /\ ~BatchCollides(call.passengers,
                                  flights[call.flight_id].passengers)
        IN  /\ passes => call'.result = "ok"
            /\ call'.result = "ok" =>
                  flights' = [flights EXCEPT ![call.flight_id].passengers =
                                  @ \o DumpAll(call.passengers)]]_vars

\* An add of two passengers ended well on a flight that then has more
\* seated passengers than its capacity, its overbooked list not empty.
C19_Witness ==
    /\ call.op = "add"
    /\ call.result = "ok"
    /\ Len(call.passengers) = 2
    /\ Len(flights[call.flight_id].passengers) > flights[call.flight_id].capacity
    /\ flights[call.flight_id].overbookedPassengers # <<>>

\* C20: a patch-passenger that ends well changes nothing but the supplied
\* fields of the seated passenger that has the given identifier: that
\* passenger's identifier and its other fields, every other seated
\* passenger, the length and order of the seated list, the overbooked list,
\* the flight code, the capacity and the other flights are as they were.
C20_PatchFrame ==
    [][(Pending("patch") /\ call'.result = "ok") =>
        LET f == call.flight_id
            old == flights[f].passengers
            new == flights'[f].passengers
            supplied == {to_camel(k) : k \in DOMAIN call.passenger}
        IN  /\ DOMAIN flights' = DOMAIN flights
            /\ \A g \in DOMAIN flights \ {f} : flights'[g] = flights[g]
            /\ flights'[f] = [flights[f] EXCEPT !.passengers = new]
            /\ Len(new) = Len(old)
            /\ \A i \in 1..Len(old) :
                  /\ new[i].id = old[i].id
                  /\ old[i].id # call.passenger_id => new[i] = old[i]
                  /\ DOMAIN new[i] = DOMAIN old[i]
                  /\ \A k \in DOMAIN old[i] \ supplied : new[i][k] = old[i][k]]_vars

\* The second of two seated passengers was given another age and
\* reservation; the first has its own still.
C20_Witness ==
    /\ call.op = "patch"
    /\ call.result = "ok"
    /\ DOMAIN call.passenger = {"age", "reservation_id"}
    /\ Len(flights[call.flight_id].passengers) = 2
    /\ flights[call.flight_id].passengers[2].id = call.passenger_id
    /\ flights[call.flight_id].passengers[2].age = 7
    /\ flights[call.flight_id].passengers[2].reservationId = "B"
    /\ flights[call.flight_id].passengers[2].flightCategory = "Gold"
    /\ flights[call.flight_id].passengers[1].age # 7
    /\ flights[call.flight_id].passengers[1].reservationId = "A"
    /\ flights[call.flight_id].overbookedPassengers # <<>>

\* seq with the elements at the positions of drop taken out, the others in
\* their order.
RECURSIVE Without(_, _)
Without(seq, drop) ==
    IF seq = <<>> THEN <<>>
    ELSE LET front == Without(SubSeq(seq, 1, Len(seq) - 1), drop \ {Len(seq)})
         IN  IF Len(seq) \in drop THEN front ELSE Append(front, seq[Len(seq)])

\* C21: a remove-passengers that ends well takes from the seated list
\* exactly the passengers whose identifier is among the given ones and keeps
\* the others in their order; the overbooked list (also a passenger of it
\* that has a given identifier), the flight code, the capacity and the other
\* flights are as they were.
C21_RemoveFrame ==
    [][(Pending("remove") /\ call'.result = "ok") =>
        LET f == call.flight_id
            old == flights[f].passengers
            drop == {i \in 1..Len(old) : old[i].id \in call.passenger_ids}
        IN  /\ drop # {}
            /\ flights' = [flights EXCEPT ![f].passengers = Without(old, drop)]
            /\ flights'[f].overbookedPassengers = flights[f].overbookedPassengers
            /\ flights'[f].flightCode = flights[f].flightCode
            /\ flights'[f].capacity = flights[f].capacity]_vars

\* A removal ended well and left a seated passenger, and in the overbooked
\* list a passenger that has one of the given identifiers.
C21_Witness ==
    /\ call.op = "remove"
    /\ call.result = "ok"
    /\ flights[call.flight_id].passengers # <<>>
    /\ \E i \in DOMAIN flights[call.flight_id].overbookedPassengers :
          flights[call.flight_id].overbookedPassengers[i].id \in call.passenger_ids

\* C22: after any sequence of create-flight, full-update, add-passengers,
\* remove-passengers and patch-passenger operations run one at a time, the
\* seated list of every stored flight, taken alone, has as many different
\* identifiers as it has passengers.
C22_SeatedIdsUnique ==
    \A f \in DOMAIN flights :
        Cardinality(SeatedIds(f)) = Len(flights[f].passengers)

\* A patch has ended well on a flight with two seated passengers, one of
\* whose identifiers an overbooked passenger has too.
C22_Witness ==
    /\ call.op = "patch"
    /\ call.result = "ok"
    /\ Len(flights[call.flight_id].passengers) = 2
    /\ \E i \in DOMAIN flights[call.flight_id].overbookedPassengers :
          flights[call.flight_id].overbookedPassengers[i].id
              \in SeatedIds(call.flight_id)

----------------------------------------------------------------------------
(* Concurrent add-passengers requests: flights_add_passengers awaits the   *)
(* read of the flight (find_one, in _get_create_passengers_data) and then  *)
(* awaits the append (update_one with $push); other requests run between   *)
(* the two. Each storage call is atomic on the one document.               *)

MaxClients == 2

Clients == 1..MaxClients

\* The passengers of the concurrent batches: identifiers 1 and 2.
ConcPool ==
    {PassengerCreate(1, "A", 0, "Normal", FALSE, FALSE),
     PassengerCreate(2, "A", 1, "Gold", TRUE, TRUE)}

\* The flight the requests address, as create-flight stores it for a payload
\* of no passengers or of passenger 2 alone.
ConcFlights ==
    {[flightCode |-> "AA1", capacity |-> c, passengers |-> DumpAll(seated),
      overbookedPassengers |-> <<>>] :
        c \in {1}, seated \in {<<>>, <<PassengerCreate(2, "B", 1, "Gold", TRUE, TRUE)>>}}

InitConc ==
    /\ flights \in {NoFlights} \cup {[f \in {"f1"} |-> doc] : doc \in ConcFlights}
    /\ call \in [Clients -> [op : {"add"}, flight_id : {"f1"},
                             passengers : SeqsUpTo(ConcPool, MaxBatch),
                             pc : {"check"}, data : {<<>>},
                             result : {"pending"}]]
    /\ args = [base |-> IF "f1" \in DOMAIN flights
                        THEN flights["f1"].passengers ELSE <<>>]
    /\ ret = [done |-> TRUE, booked |-> <<>>, overbooked |-> <<>>]

\* data = await _get_create_passengers_data(flight_id, passengers)
AddCheck(r) ==
    /\ call[r].pc = "check"
    /\ LET dumped == _get_create_passengers_data(call[r].flight_id,
                                                 call[r].passengers)
       IN  call' = [call EXCEPT ![r] =
                IF dumped.err # "ok"
                THEN [@ EXCEPT !.pc = "done", !.result = dumped.err]
                ELSE [@ EXCEPT !.pc = "push", !.data = dumped.data]]
    /\ UNCHANGED <<flights, args, ret>>

\* The append made one passenger at a time.
AddPushEach(r) ==
    /\ call[r].pc = "push"
    /\ IF call[r].flight_id \notin DOMAIN flights
       THEN /\ call' = [call EXCEPT ![r].pc = "done",
                                    ![r].result = "NotFoundError"]
            /\ UNCHANGED flights
       ELSE IF call[r].data = <<>>
       THEN /\ call' = [call EXCEPT ![r].pc = "done", ![r].result = "ok"]
            /\ UNCHANGED flights
       ELSE /\ flights' = [flights EXCEPT ![call[r].flight_id].passengers =
                               Append(@, Head(call[r].data))]
            /\ call' = [call EXCEPT ![r].data = Tail(@)]
    /\ UNCHANGED <<args, ret>>

\* result = await update_one({"_id": ...}, {"$push": {"passengers":
\* {"$each": data}}}); matched_count == 0 raises NotFoundError.
AddPush(r) ==
    /\ call[r].pc = "push"
    /\ IF call[r].flight_id \notin DOMAIN flights
       THEN /\ call' = [call EXCEPT ![r].pc = "done",
                                    ![r].result = "NotFoundError"]
            /\ UNCHANGED flights
       ELSE /\ flights' = [flights EXCEPT ![call[r].flight_id].passengers =
                               @ \o call[r].data]
            /\ call' = [call EXCEPT ![r].pc = "done", ![r].result = "ok"]
    /\ UNCHANGED <<args, ret>>

NextConc ==
    \/ \E r \in Clients : AddCheck(r)
    \/ \E r \in Clients : AddPush(r)

SpecConc == InitConc /\ [][NextConc]_vars

\* C11: however the checks and the appends of concurrent add-passengers
\* requests on one flight interleave, the flight's seated list has no
\* passenger identifier twice.
C11_ConcurrentAddsUnique ==
    \A f \in DOMAIN flights : NoRepeat(Ids(flights[f].passengers))

RECURSIVE Appended(_)
\* The lists the requests of set S append, one whole batch after another,
\* in every order of the requests.
Appended(S) ==
    IF S = {}
    THEN {<<>>}
    ELSE UNION {{DumpAll(call[r].passengers) \o rest :
                    rest \in Appended(S \ {r})} : r \in S}

\* C17: in every state of concurrent add-passengers requests on one flight,
\* each request has appended its whole batch or nothing of it: the seated
\* list is the list the requests began with, followed by the whole batches
\* of the requests that have ended well, and by no passenger of any other
\* request.
C17_BatchAllOrNothing ==
    \A f \in DOMAIN flights :
        \E tail \in Appended({r \in Clients : call[r].result = "ok"}) :
            flights[f].passengers = args.base \o tail

\* One request has appended a batch of two passengers while another, which
\* has passed its check, has still to append its own.
C17_Witness ==
    \E r, q \in Clients :
        /\ call[r].result = "ok"
        /\ Len(call[r].passengers) = 2
        /\ call[q].pc = "push"
        /\ call[q].passengers # <<>>
        /\ Len(flights["f1"].passengers) = Len(args.base) + 2

====
